---- MODULE Spec2Model ----
(***************************************************************************)
(* Inventory reconciliation layer of the dealership dashboard:             *)
(*   db.py                  the vehicles table and its writers             *)
(*   fb_marketplace_sync.py the sync run (main) and the retry counters     *)
(*   dashboard.py           the derived (effective) prices, the market     *)
(*                          lookups and the sync trigger                   *)
(*                                                                         *)
(* The vehicles table is a set of rows.  A row keeps the columns that the  *)
(* writers treat differently: the key, the producer-controlled price, the  *)
(* lifecycle columns, the user-editable columns, the attempt counter and   *)
(* the Cox columns.  The other producer-controlled columns (title, make,    *)
(* model, ...) are written by the same excluded.* assignments as           *)
(* price_dollars and are not repeated.                                     *)
(***************************************************************************)
EXTENDS Integers, Sequences, FiniteSets, TLC

VARIABLES
    vehicles,   \* the vehicles table: a set of rows
    sync_runs,  \* the sync_runs table: its rows in the order of their id
    now,        \* the latest clock reading
    last,       \* history: the latest operation, its inputs and its result
    expect,     \* history: per VIN, what the user and the feed said last
    comps_cache,\* the comps_cache table: a set of rows
    vin_cache,  \* the vin_cache table: a set of rows
    stored,     \* history: what the callers of the caches stored last
    txn,        \* the open write transaction of upsert_vehicles, if any
    seen,       \* history: what a reader has read since the pass began
    sync,       \* dashboard._sync: the run state of the sync trigger
    tasks,      \* the background tasks of the accepted trigger requests
    fb_stats,   \* dashboard._fb_stats: the run state of the stats refresh
    fb_tasks,   \* the background tasks of the accepted refresh requests
    store,      \* ravendb_cache._store: whether a document store is connected
    raven       \* the documents of the CompsCache collection of RavenDB

vars == <<vehicles, sync_runs, now, last, expect, comps_cache, vin_cache,
          stored, txn, seen, sync, tasks, fb_stats, fb_tasks, store, raven>>

\* The state outside the vehicles table and the sync history.
ravenVars   == <<store, raven>>
cacheVars   == <<comps_cache, vin_cache, stored, ravenVars>>
passVars    == <<txn, seen>>
fbVars      == <<fb_stats, fb_tasks>>
triggerVars == <<sync, tasks, fb_stats, fb_tasks>>

(***************************************************************************)
(* Bounds of the model.                                                    *)
(***************************************************************************)
\* Largest clock reading (datetime.utcnow(), in seconds since the start).
MaxTime == 2
\* Longest batch handed to upsert_vehicles.
MaxBatch == 2
\* Most sync runs recorded.
MaxRuns == 4
\* Most half days the clock of the caches runs.
MaxHalfDays == 2
\* Most trigger requests accepted.
MaxTriggers == 3
\* Most refresh requests accepted.
MaxRefreshes == 2
\* Most trigger requests made beside the refresh requests.
MaxJobs == 2

(***************************************************************************)
(* Values.                                                                 *)
(***************************************************************************)
\* SQL NULL / Python None of an INTEGER column (all stored integers are >= 0).
NULL == -1

\* The VINs of the model (17 characters each) and the empty identifier.
VinA == "1FAFP404X1F123456"
VinB == "JN1BJ1CW7LW123457"
VinC == "3PCAJ5M32KF123458"
Vins == {VinA, VinB}
EmptyVin == ""

\* A price string is a sequence of characters; None and "" are the empty one.
NoPrice == << >>
Usd == <<" ", "U", "S", "D">>
P19500 == <<"1", "9", "5", "0", "0">> \o Usd
P19000 == <<"1", "9", "0", "0", "0">> \o Usd
PriceStrings == {NoPrice, P19500, P19000}

\* Price fields that do not start with a digit.
PDollar == <<"$", "1", "9", "5", "0", "0">>
PCall == <<"C", "a", "l", "l">>

IsDigit(ch) == ch \in {"0", "1", "2", "3", "4", "5", "6", "7", "8", "9"}

DigitVal(ch) ==
    CASE ch = "0" -> 0 [] ch = "1" -> 1 [] ch = "2" -> 2 [] ch = "3" -> 3
      [] ch = "4" -> 4 [] ch = "5" -> 5 [] ch = "6" -> 6 [] ch = "7" -> 7
      [] ch = "8" -> 8 [] ch = "9" -> 9

\* int() of the leading run of digits of s, continuing from acc.
RECURSIVE LeadingInt(_, _)
LeadingInt(s, acc) ==
    IF s = << >> \/ ~IsDigit(Head(s)) THEN acc
    ELSE LeadingInt(Tail(s), 10 * acc + DigitVal(Head(s)))

\* A mutant of ParsePrice: a price that cannot be read is stored as 0.
ParsePriceZero(price) ==
    IF price = NoPrice THEN 0
    ELSE IF ~IsDigit(Head(price)) THEN 0
    ELSE LeadingInt(price, 0)

\* price_dollars of a record: None unless the price is non-empty and starts
\* with a digit (re.match(r"(\d+)", ...)).
ParsePrice(price) ==
    IF price = NoPrice THEN NULL
    ELSE IF ~IsDigit(Head(price)) THEN NULL
    ELSE LeadingInt(price, 0)

(***************************************************************************)
(* upsert_vehicles                                                         *)
(***************************************************************************)
\* A mutant of DeactivateAll: the deactivation step is missing.
DeactivateAllSkipped(rows) == rows

\* UPDATE vehicles SET is_active = 0 WHERE is_active = 1
DeactivateAll(rows) ==
    {IF r.is_active = 1 THEN [r EXCEPT !.is_active = 0] ELSE r : r \in rows}

\* The row INSERT creates: the given columns and the schema's defaults.
NewRow(vin, price_dollars, first_seen, t) ==
    [vin |-> vin, price_dollars |-> price_dollars,
     first_seen |-> first_seen, last_seen |-> t, is_active |-> 1,
     price_override |-> NULL, addendum_override |-> NULL,
     market_value |-> NULL, notes |-> "",
     price_scrape_attempts |-> 0, cost |-> NULL, pack |-> 0,
     cox_adj_cost_to_market |-> NULL, cox_report_date |-> ""]

\* A mutant of ConflictUpdate: INSERT OR REPLACE, the row is rewritten whole.
ConflictReplace(r, price_dollars, t) ==
    NewRow(r.vin, price_dollars, r.first_seen, t)

\* A mutant of ConflictUpdate: first_seen is refreshed with last_seen.
ConflictTouchFirstSeen(r, price_dollars, t) ==
    [r EXCEPT !.price_dollars = price_dollars, !.first_seen = t,
              !.last_seen = t, !.is_active = 1]

\* A mutant of ConflictUpdate: is_active = 1 is missing from the SET list.
ConflictNoReactivate(r, price_dollars, t) ==
    [r EXCEPT !.price_dollars = price_dollars, !.last_seen = t]

\* ON CONFLICT(vin) DO UPDATE SET ... = excluded. ..., is_active = 1
ConflictUpdate(r, price_dollars, t) ==
    [r EXCEPT !.price_dollars = price_dollars, !.last_seen = t,
              !.is_active = 1]

\* A mutant of InsertOrUpdate: a plain INSERT with no uniqueness of vin.
InsertAlways(rows, vin, price_dollars, t) ==
    rows \cup {NewRow(vin, price_dollars, t, t)}

\* INSERT INTO vehicles ... ON CONFLICT(vin) DO UPDATE ...  (vin is the key).
InsertOrUpdate(rows, vin, price_dollars, t) ==
    IF \E r \in rows : r.vin = vin
    THEN {IF r.vin = vin THEN ConflictUpdate(r, price_dollars, t) ELSE r
            : r \in rows}
    ELSE LET first_seen == t
         IN  rows \cup {NewRow(vin, price_dollars, first_seen, t)}

\* The loop over vehicle_rows, from record i on.
RECURSIVE UpsertLoop(_, _, _, _)
UpsertLoop(rows, batch, i, t) ==
    IF i > Len(batch) THEN rows
    ELSE LET v == batch[i]
         IN  IF v.vin = EmptyVin
             THEN UpsertLoop(rows, batch, i + 1, t)
             ELSE UpsertLoop(InsertOrUpdate(rows, v.vin, ParsePrice(v.price), t),
                             batch, i + 1, t)

\* A mutant of UpsertVehicles: an empty batch is refused (early return).
UpsertVehiclesGuarded(rows, batch, t) ==
    IF batch = << >> THEN rows
    ELSE UpsertLoop(DeactivateAll(rows), batch, 1, t)

\* upsert_vehicles(vehicle_rows) at clock reading t: the table afterwards.
UpsertVehicles(rows, batch, t) == UpsertLoop(DeactivateAll(rows), batch, 1, t)

\* A mutant of UpsertOne: the record without identifier is stored like any
\* other (the "if not vin: continue" is missing).
UpsertOneNoSkip(rows, v, t) ==
    InsertOrUpdate(rows, v.vin, ParsePrice(v.price), t)

\* One turn of the loop of upsert_vehicles, for the record v.
UpsertOne(rows, v, t) ==
    IF v.vin = EmptyVin THEN rows
    ELSE InsertOrUpdate(rows, v.vin, ParsePrice(v.price), t)

\* int(v.get("mileage") or 0) raises ValueError: the record has a
\* non-empty mileage that is not a number (the records of the producers
\* carry digits only; a record without the key has mileage 0).
BadMileage(v) ==
    /\ v.vin # EmptyVin
    /\ "mileage" \in DOMAIN v
    /\ \E i \in 1..Len(v.mileage) : ~IsDigit(v.mileage[i])

\* A mutant of AfterRollback: what the pass wrote before the exception
\* stays (every statement commits, or the handler commits on the way out).
AfterRollbackMissing(committed, write_txn) == write_txn.rows

\* The table after an exception has left "with _conn() as c": the
\* connection's __exit__ rolls the open transaction back.
AfterRollback(committed, write_txn) == committed

\* No write transaction is open.
NoTxn ==
    [open |-> FALSE, rows |-> {}, batch |-> << >>, i |-> 0, t |-> 0,
     pre |-> {}]

\* A mutant of ReaderView: the writes of an open transaction are visible at
\* once (every statement commits, or the reader shares the connection).
ReaderViewDirty(committed, write_txn) ==
    IF write_txn.open THEN write_txn.rows ELSE committed

\* What a SELECT on another connection reads while write_txn is open: every
\* caller opens its own connection (_conn), and the statements inside
\* "with _conn() as c" are one transaction, committed when the block ends.
ReaderView(committed, write_txn) == committed

(***************************************************************************)
(* update_vehicle_fields                                                   *)
(***************************************************************************)
\* A Python dict is a function from its keys; {} is the empty function.
EmptyDict == << >>

allowed == {"price_override", "addendum_override", "market_value", "notes",
            "cost", "pack"}

\* {k: v for k, v in fields.items() if k in allowed}
AllowedUpdates(fields) ==
    [k \in (DOMAIN fields) \cap allowed |-> fields[k]]

\* The value column col has after SET k=? for every key k of updates.
SetColumn(r, updates, col) ==
    IF col \in DOMAIN updates THEN updates[col] ELSE r[col]

\* UPDATE vehicles SET <updates> WHERE vin=?  applied to one row.
UpdateRow(r, updates) ==
    [r EXCEPT !.price_override    = SetColumn(r, updates, "price_override"),
              !.addendum_override = SetColumn(r, updates, "addendum_override"),
              !.market_value      = SetColumn(r, updates, "market_value"),
              !.notes             = SetColumn(r, updates, "notes"),
              !.cost              = SetColumn(r, updates, "cost"),
              !.pack              = SetColumn(r, updates, "pack")]

\* The table after update_vehicle_fields(vin, fields).
UpdateVehicleFields(rows, vin, fields) ==
    LET updates == AllowedUpdates(fields)
    IN  IF DOMAIN updates = {} THEN rows
        ELSE {IF r.vin = vin THEN UpdateRow(r, updates) ELSE r : r \in rows}

\* What update_vehicle_fields(vin, fields) returns: cur.rowcount > 0.
UpdateVehicleFieldsResult(rows, vin, fields) ==
    LET updates == AllowedUpdates(fields)
    IN  IF DOMAIN updates = {} THEN FALSE
        ELSE \E r \in rows : r.vin = vin

(***************************************************************************)
(* cox_import                                                              *)
(***************************************************************************)
\* round(n / d) of Python 3 for n >= 0, d > 0: to nearest, ties to even.
RoundDiv(n, d) ==
    LET q   == n \div d
        rem == n % d
    IN  IF 2 * rem < d THEN q
        ELSE IF 2 * rem > d THEN q + 1
        ELSE IF q % 2 = 0 THEN q ELSE q + 1

\* The fields dict cox_import builds for one record.
CoxFields(rec) ==
    LET adj   == rec.adj_cost_to_market
        price == rec.internet_price
        f1 == IF adj # NULL THEN ("cox_adj_cost_to_market" :> adj)
              ELSE EmptyDict
        f2 == IF rec.report_date # ""
              THEN ("cox_report_date" :> rec.report_date) ELSE EmptyDict
        f3 == IF price # NULL /\ price # 0 /\ adj # NULL /\ adj > 0
              THEN ("market_value" :> RoundDiv(100 * price, adj))
              ELSE EmptyDict
    IN  f1 @@ f2 @@ f3

\* Whether cox_import updates a row for rec.
CoxMatches(rows, rec) ==
    /\ rec.vin # EmptyVin
    /\ Len(rec.vin) = 17
    /\ \E r \in rows : r.vin = rec.vin
    /\ DOMAIN CoxFields(rec) # {}

\* cox_import applied to one record.
CoxImportOne(rows, rec) ==
    IF ~CoxMatches(rows, rec) THEN rows
    ELSE LET fields == CoxFields(rec)
         IN  {IF r.vin = rec.vin
              THEN [r EXCEPT
                      !.cox_adj_cost_to_market =
                          SetColumn(r, fields, "cox_adj_cost_to_market"),
                      !.cox_report_date =
                          SetColumn(r, fields, "cox_report_date"),
                      !.market_value = SetColumn(r, fields, "market_value")]
              ELSE r : r \in rows}

\* The loop of cox_import over records, from record i on.
RECURSIVE CoxImportLoop(_, _, _)
CoxImportLoop(rows, records, i) ==
    IF i > Len(records) THEN rows
    ELSE CoxImportLoop(CoxImportOne(rows, records[i]), records, i + 1)

(***************************************************************************)
(* Price-scrape attempt tracking and the sync run (fb_marketplace_sync)    *)
(***************************************************************************)
\* The retry ceiling: the default of the environment variable.
MAX_SCRAPE_ATTEMPTS == 3

\* A mutant of GetScrapeAttempts: the WHERE vin IN (...) is missing, every
\* row of the table is returned.
GetScrapeAttemptsAll(rows, vins) ==
    [v \in {r.vin : r \in rows} |->
        LET r == CHOOSE x \in rows : x.vin = v
        IN  IF r.price_scrape_attempts = NULL THEN 0
            ELSE r.price_scrape_attempts]

\* get_scrape_attempts(vins): {vin: COALESCE(price_scrape_attempts, 0)} for
\* the rows among vins ({} when vins is empty).
GetScrapeAttempts(rows, vins) ==
    [v \in {r.vin : r \in rows} \cap vins |->
        LET r == CHOOSE x \in rows : x.vin = v
        IN  IF r.price_scrape_attempts = NULL THEN 0
            ELSE r.price_scrape_attempts]

\* dict.get(key, default)
DictGet(d, key, default) == IF key \in DOMAIN d THEN d[key] ELSE default

\* max(0, count)
Max0(count) == IF count < 0 THEN 0 ELSE count

\* A mutant of UpdateScrapeAttempts: the count is added to the stored one
\* (SET price_scrape_attempts = price_scrape_attempts + ?).
UpdateScrapeAttemptsAdd(rows, updates) ==
    {IF r.vin \in DOMAIN updates
     THEN [r EXCEPT !.price_scrape_attempts = @ + Max0(updates[r.vin])]
     ELSE r : r \in rows}

\* update_scrape_attempts(updates): UPDATE ... SET price_scrape_attempts=?
\* WHERE vin=? for every item of updates.
UpdateScrapeAttempts(rows, updates) ==
    {IF r.vin \in DOMAIN updates
     THEN [r EXCEPT !.price_scrape_attempts = Max0(updates[r.vin])]
     ELSE r : r \in rows}

\* A mutant of SkipVins: the comparison with the ceiling is strict.
SkipVinsStrict(attempts, ceiling) ==
    {vin \in DOMAIN attempts : attempts[vin] > ceiling}

\* _skip_vins: the VINs whose count has reached the ceiling.
SkipVins(attempts, ceiling) ==
    {vin \in DOMAIN attempts : attempts[vin] >= ceiling}

\* need_scrape of scrape_prices: no price yet and not skipped.
NeedScrape(feed, skip_vins) ==
    {feed[i].vin : i \in {k \in 1..Len(feed) :
        feed[k].price = NoPrice /\ feed[k].vin \notin skip_vins}}

\* scrape_prices: the vehicles of need_scrape take the price the inventory
\* API has for their VIN, if it has one.
ScrapePrices(feed, skip_vins, vin_price_map) ==
    [i \in 1..Len(feed) |->
        IF /\ feed[i].vin \in NeedScrape(feed, skip_vins)
           /\ DictGet(vin_price_map, feed[i].vin, NoPrice) # NoPrice
        THEN [feed[i] EXCEPT !.price = vin_price_map[feed[i].vin]]
        ELSE feed[i]]

\* A mutant of AttemptedThisRun: the skipped vehicles are counted too.
AttemptedWithSkipped(feed, skip_vins, no_price_scrape) ==
    IF no_price_scrape THEN {}
    ELSE {feed[i].vin : i \in 1..Len(feed)}

\* _attempted_this_run
AttemptedThisRun(feed, skip_vins, no_price_scrape) ==
    IF no_price_scrape THEN {}
    ELSE {feed[i].vin : i \in 1..Len(feed)} \ skip_vins

\* A mutant of RecordOutcome: a success leaves the count as it was.
RecordOutcomeNoReset(prev, priced) == IF priced THEN prev ELSE prev + 1

\* The new count of an attempted vehicle: 0 when it has a price, else prev + 1.
RecordOutcome(prev, priced) == IF priced THEN 0 ELSE prev + 1

\* _attempt_updates, from the vehicles as scrape_prices left them.
AttemptUpdates(feed, attempted, attempts) ==
    [vin \in {feed[i].vin : i \in 1..Len(feed)} \cap attempted |->
        LET v == feed[CHOOSE i \in 1..Len(feed) : feed[i].vin = vin]
        IN  RecordOutcome(DictGet(attempts, vin, 0), v.price # NoPrice)]

\* The vehicles table after step 5 of main: upsert_vehicles, then the
\* attempt counters.
PersistRun(rows, feed, attempted, attempts, t) ==
    UpdateScrapeAttempts(UpsertVehicles(rows, feed, t),
                         AttemptUpdates(feed, attempted, attempts))

\* sum(1 for v in vehicles if v.price)
PricedCount(feed) == Cardinality({i \in 1..Len(feed) : feed[i].price # NoPrice})

\* The dict main hands to record_sync_run (duration_seconds, a reading of the
\* wall clock, is left out).
RunSummary(feed, csv_only, success) ==
    [vehicles_found    |-> Len(feed),
     vehicles_priced   |-> PricedCount(feed),
     vehicles_uploaded |-> IF ~csv_only /\ success THEN Len(feed) ELSE 0,
     success           |-> success]

\* A mutant of RecordSyncRun: INSERT OR REPLACE under one fixed id, the row
\* of the run before is overwritten.
RecordSyncRunReplace(runs, run, t) ==
    <<[id |-> 1, run_at |-> t,
       vehicles_found |-> run.vehicles_found,
       vehicles_priced |-> run.vehicles_priced,
       vehicles_uploaded |-> run.vehicles_uploaded,
       success |-> IF run.success THEN 1 ELSE 0]>>

\* record_sync_run(run) at clock reading t: INSERT INTO sync_runs, the id
\* from AUTOINCREMENT.
RecordSyncRun(runs, run, t) ==
    Append(runs,
           [id |-> Len(runs) + 1, run_at |-> t,
            vehicles_found |-> run.vehicles_found,
            vehicles_priced |-> run.vehicles_priced,
            vehicles_uploaded |-> run.vehicles_uploaded,
            success |-> IF run.success THEN 1 ELSE 0])

(***************************************************************************)
(* Derived prices (dashboard._enrich_vehicle)                              *)
(***************************************************************************)
\* A mutant of EffectivePrice: "override or scraped", a 0 override is dropped.
EffectivePriceTruthy(r) ==
    IF r.price_override # NULL /\ r.price_override # 0
    THEN r.price_override ELSE r.price_dollars

\* ep: price_override if it is not None, else price_dollars.
EffectivePrice(r) ==
    IF r.price_override # NULL THEN r.price_override ELSE r.price_dollars

\* ea: addendum_override if it is not None, else the global addendum.
EffectiveAddendum(r, addendum) ==
    IF r.addendum_override # NULL THEN r.addendum_override ELSE addendum

(***************************************************************************)
(* The lookup caches (db.py: comps_cache and vin_cache)                    *)
(***************************************************************************)
\* Optional[...]: None, or a value that is there.
None == << >>
Some(x) == <<x>>

\* The items of a JSON array, separated by commas.
RECURSIVE JsonItems(_)
JsonItems(list) ==
    IF list = << >> THEN << >>
    ELSE IF Len(list) = 1 THEN <<list[1]>>
    ELSE <<list[1], ",">> \o JsonItems(Tail(list))

\* json.dumps of a list of strings: the JSON text, token by token.
JsonDumps(list) == <<"[">> \o JsonItems(list) \o <<"]">>

\* json.loads of the text of a JSON array of strings.
JsonLoads(text) == SelectSeq(text, LAMBDA tok : tok \notin {"[", "]", ","})

\* _COMPS_TTL_HOURS
COMPS_TTL_HOURS == 24

\* total_seconds() / 3600: the seconds of an hour.
HourSeconds == 3600

\* A mutant of TtlElapsed: an entry of exactly 24 hours counts as elapsed.
TtlElapsedAtBoundary(t, fetched_at) ==
    t - fetched_at >= COMPS_TTL_HOURS * HourSeconds

\* age_h > _COMPS_TTL_HOURS, for a clock t and a fetched_at in seconds.
TtlElapsed(t, fetched_at) ==
    t - fetched_at > COMPS_TTL_HOURS * HourSeconds

\* get_comps_cache(cache_key) at clock reading t.
GetCompsCache(rows, cache_key, t) ==
    LET found == {r \in rows : r.cache_key = cache_key}
    IN  IF found = {} THEN None
        ELSE LET row == CHOOSE r \in found : TRUE
             IN  IF TtlElapsed(t, row.fetched_at) THEN None
                 ELSE Some(JsonLoads(row.data))

\* A mutant of SetCompsCache: INSERT OR IGNORE, an existing entry is kept.
SetCompsCacheIgnore(rows, cache_key, listings, t) ==
    IF \E r \in rows : r.cache_key = cache_key THEN rows
    ELSE rows \cup {[cache_key |-> cache_key, data |-> JsonDumps(listings),
                      fetched_at |-> t]}

\* set_comps_cache(cache_key, listings) at clock reading t:
\* INSERT ... ON CONFLICT(cache_key) DO UPDATE SET data, fetched_at.
SetCompsCache(rows, cache_key, listings, t) ==
    IF \E r \in rows : r.cache_key = cache_key
    THEN {IF r.cache_key = cache_key
          THEN [r EXCEPT !.data = JsonDumps(listings), !.fetched_at = t]
          ELSE r : r \in rows}
    ELSE rows \cup {[cache_key |-> cache_key, data |-> JsonDumps(listings),
                      fetched_at |-> t]}

\* ravendb_cache.get_comps_cache(cache_key, fallback_fn) at clock reading t,
\* fallback_fn being db.get_comps_cache: connected is "if _store", outcome
\* says whether the session of this call works ("ok") or raises.  A
\* session that works answers for the document store alone: no document
\* and a document older than the TTL are both None.
RavenGetCompsCache(connected, docs, rows, cache_key, t, outcome) ==
    IF connected /\ outcome = "ok"
    THEN LET found == {d \in docs : d.id = cache_key}
         IN  IF found = {} THEN None
             ELSE LET doc == CHOOSE d \in found : TRUE
                  IN  IF TtlElapsed(t, doc.fetched_at) THEN None
                      ELSE Some(doc.data)
    ELSE GetCompsCache(rows, cache_key, t)

\* The documents after ravendb_cache.set_comps_cache(cache_key, listings,
\* fallback_fn): a session that works stores the document under its id.
RavenDocsAfterSet(connected, docs, cache_key, listings, t, outcome) ==
    IF connected /\ outcome = "ok"
    THEN {d \in docs : d.id # cache_key}
             \cup {[id |-> cache_key, data |-> listings, fetched_at |-> t]}
    ELSE docs

\* The comps_cache table after the same call, fallback_fn being
\* db.set_comps_cache: written only when the document store was not.
RavenRowsAfterSet(connected, rows, cache_key, listings, t, outcome) ==
    IF connected /\ outcome = "ok" THEN rows
    ELSE SetCompsCache(rows, cache_key, listings, t)

\* A mutant of GetVinCache: the entries expire like those of comps_cache.
GetVinCacheTtl(rows, vin) ==
    LET found == {r \in rows : r.vin = vin /\ ~TtlElapsed(now, r.fetched_at)}
    IN  IF found = {} THEN None
        ELSE LET row == CHOOSE r \in found : TRUE
             IN  Some([specs |-> JsonLoads(row.specs_json),
                       sticker_url |-> row.sticker_url])

\* get_vin_cache(vin)
GetVinCache(rows, vin) ==
    LET found == {r \in rows : r.vin = vin}
    IN  IF found = {} THEN None
        ELSE LET row == CHOOSE r \in found : TRUE
             IN  Some([specs |-> JsonLoads(row.specs_json),
                       sticker_url |-> row.sticker_url])

\* A mutant of SetVinCache: the row is written whole, a field that is not
\* given goes back to its default.
SetVinCacheWhole(rows, vin, specs, sticker_url, t) ==
    {r \in rows : r.vin # vin} \cup
    {[vin |-> vin,
      specs_json |-> JsonDumps(IF specs = None THEN << >> ELSE specs[1]),
      sticker_url |-> IF sticker_url = None THEN "" ELSE sticker_url[1],
      fetched_at |-> t]}

\* set_vin_cache(vin, specs, sticker_url) at clock reading t; an argument
\* is None or Some(value).
SetVinCache(rows, vin, specs, sticker_url, t) ==
    LET found == {r \in rows : r.vin = vin}
    IN  IF found # {}
        THEN LET existing    == CHOOSE r \in found : TRUE
                 new_specs   == IF specs # None THEN JsonDumps(specs[1])
                                ELSE existing.specs_json
                 new_sticker == IF sticker_url # None THEN sticker_url[1]
                                ELSE existing.sticker_url
             IN  {IF r.vin = vin
                  THEN [r EXCEPT !.specs_json = new_specs,
                                 !.sticker_url = new_sticker,
                                 !.fetched_at = t]
                  ELSE r : r \in rows}
        ELSE rows \cup
             {[vin |-> vin,
               \* json.dumps(specs or []), sticker_url or ""
               specs_json |-> JsonDumps(IF specs = None THEN << >>
                                        ELSE specs[1]),
               sticker_url |-> IF sticker_url = None THEN "" ELSE sticker_url[1],
               fetched_at |-> t]}

\* The listings a handler keeps of a MarketCheck answer (a listing is
\* modelled by the VIN it carries; its other keys are copied the same way).
Enriched(listings) == listings

\* Whether the MarketCheck request failed: an exception of requests.get or
\* resp.json(), a status other than 200, or an "error" key in the answer.
FetchFailed(fetch) == fetch.kind \in {"exception", "status", "error"}

\* A mutant of AfterFetch: a failed request is cached as "no listings".
AfterFetchAlways(rows, cache_key, fetch, t) ==
    SetCompsCache(rows, cache_key, Enriched(fetch.listings), t)

\* The comps_cache table after the request of a handler that missed the
\* cache: every failure raises HTTPException(502) before set_comps_cache.
AfterFetch(rows, cache_key, fetch, t) ==
    IF FetchFailed(fetch) THEN rows
    ELSE SetCompsCache(rows, cache_key, Enriched(fetch.listings), t)

(***************************************************************************)
(* get_comparable_vehicles                                                 *)
(***************************************************************************)
\* The rows here carry the columns the query reads: vin, make, model, year
\* (NULL when the feed gave none), trim (a sequence of characters) and
\* is_active.

\* ABS(year - ?) <= 4
YearWindow == 4

\* The default of the parameter limit.
DefaultLimit == 8

Abs(n) == IF n < 0 THEN 0 - n ELSE n

\* str.lower(), for the letters of the trims of the model.
LowerChar(ch) ==
    CASE ch = "L" -> "l" [] ch = "U" -> "u" [] ch = "X" -> "x"
      [] ch = "E" -> "e" [] ch = "I" -> "i" [] ch = "N" -> "n"
      [] ch = "F" -> "f" [] ch = "T" -> "t" [] ch = "Q" -> "q"
      [] OTHER -> ch

Lower(str) == [i \in 1..Len(str) |-> LowerChar(str[i])]

\* A mutant of ComparableRows: the target's own row is not excluded.
ComparableRowsWithSelf(rows, target) ==
    {r \in rows :
        /\ r.make = target.make
        /\ r.model = target.model
        /\ r.is_active = 1
        /\ \/ target.year = NULL
           \/ r.year # NULL /\ Abs(r.year - target.year) <= YearWindow}

\* The rows the WHERE clause selects for the target row (a comparison with
\* a NULL year is not true).
ComparableRows(rows, target) ==
    {r \in rows :
        /\ r.make = target.make
        /\ r.model = target.model
        /\ r.vin # target.vin
        /\ r.is_active = 1
        /\ \/ target.year = NULL
           \/ r.year # NULL /\ Abs(r.year - target.year) <= YearWindow}

\* ABS(year - COALESCE(?, 0)): NULL for a NULL year, and NULL sorts first.
OrderDistance(r, target) ==
    IF r.year = NULL THEN NULL
    ELSE Abs(r.year - (IF target.year = NULL THEN 0 ELSE target.year))

\* ORDER BY ABS(year - COALESCE(?,0)) ASC, year DESC: r may come before r2.
OrderedBefore(r, r2, target) ==
    \/ OrderDistance(r, target) < OrderDistance(r2, target)
    \/ /\ OrderDistance(r, target) = OrderDistance(r2, target)
       /\ r.year >= r2.year

\* The orders in which the query can return the rows of sel (rows that are
\* equal under ORDER BY come in any order).
Orderings(sel, target) ==
    {ord \in [1..Cardinality(sel) -> sel] :
        /\ \A i, j \in 1..Cardinality(sel) : ord[i] = ord[j] => i = j
        /\ \A i, j \in 1..Cardinality(sel) :
              i < j => OrderedBefore(ord[i], ord[j], target)}

\* d["is_near_duplicate"]
IsNearDuplicate(r, target) ==
    r.year = target.year /\ Lower(r.trim) = Lower(target.trim)

\* The lists get_comparable_vehicles(vin, limit) can return.
GetComparableVehicles(rows, vin, limit) ==
    IF ~\E r \in rows : r.vin = vin THEN {<< >>}
    ELSE LET target == CHOOSE r \in rows : r.vin = vin
             sel    == ComparableRows(rows, target)
             n      == IF limit < Cardinality(sel) THEN limit
                       ELSE Cardinality(sel)
         IN  {[i \in 1..n |->
                  [row |-> ord[i],
                   is_near_duplicate |-> IsNearDuplicate(ord[i], target)]]
                : ord \in Orderings(sel, target)}

(***************************************************************************)
(* Inputs.                                                                 *)
(***************************************************************************)
\* A record of a batch without identifier (vin missing or "").
NoVinRecord == [vin |-> EmptyVin, price |-> NoPrice]

\* The records of a batch: an identifier and an optional price string.
VehicleRecords == [vin : Vins, price : PriceStrings] \cup {NoVinRecord}

\* Records that carry an identifier and a price.
PricedRecords == [vin : Vins, price : {P19500, P19000}]

\* The same and a record without identifier.
FeedRecords == PricedRecords \cup {NoVinRecord}

\* Records with a price, without one, and with one that cannot be read.
AnyPriceRecords == [vin : Vins, price : {P19500, NoPrice, PDollar, PCall}]

\* Records with a mileage: digits, or text that int() refuses.
M45000 == <<"4", "5", "0", "0", "0">>
MUnknown == <<"N", "/", "A">>
MileageRecords == [vin : Vins, price : {P19500}, mileage : {M45000, MUnknown}]

\* The batches (lists) of at most MaxBatch records drawn from records.
Batches(records) == UNION {[1..n -> records] : n \in 0..MaxBatch}

\* The non-empty identifiers of a batch.
BatchVins(batch) == {batch[i].vin : i \in 1..Len(batch)} \ {EmptyVin}

\* The clock readings a handler can get: time does not run backwards.
ClockReadings == {t \in now..(now + 1) : t <= MaxTime}

\* The fields dicts handed to update_vehicle_fields.
FieldUpdates ==
    {("price_override" :> 18000), ("price_override" :> 0),
     ("price_override" :> NULL),
     ("addendum_override" :> 500 @@ "market_value" :> 21000 @@ "notes" :> "hold"),
     ("addendum_override" :> NULL @@ "market_value" :> NULL @@ "notes" :> ""),
     ("first_seen" :> 0),
     EmptyDict}

\* The edits of the price override alone.
PriceEdits == {("price_override" :> 18000), ("price_override" :> NULL)}

\* Edits that set every user-editable column.
OverrideEdits ==
    {("price_override" :> 18000),
     ("addendum_override" :> 500 @@ "market_value" :> 22000 @@ "notes" :> "hold")}

\* Edits a caller of update_vehicle_fields can make: the dealer's cost and
\* pack, a user-editable column beside a key that names a lifecycle column,
\* and a price override.
AnyEdits ==
    {("cost" :> 15000 @@ "pack" :> 500),
     ("notes" :> "hold" @@ "is_active" :> 0),
     ("price_override" :> 18000)}

\* The vehicles a producer returns: a VIN and the price of the feed, if any.
SyncRecords == [vin : Vins, price : {NoPrice, P19500}]

\* The lists a producer returns: no empty VIN, no VIN twice (the producers
\* drop both).
Feeds ==
    {feed \in Batches(SyncRecords) :
        \A i, j \in 1..Len(feed) : feed[i].vin = feed[j].vin => i = j}

\* What the inventory API returns: nothing (empty or failing), or a vehicle.
ApiFeeds == {<< >>, <<[vin |-> VinA, price |-> P19500]>>}

\* What the RSS feeds return: nothing, or two vehicles, one without a price.
RssFeeds ==
    {<< >>,
     <<[vin |-> VinA, price |-> NoPrice], [vin |-> VinB, price |-> P19500]>>}

\* Feeds in which one vehicle has no price.
UnpricedFeeds ==
    {<<[vin |-> VinA, price |-> NoPrice]>>,
     <<[vin |-> VinA, price |-> NoPrice], [vin |-> VinB, price |-> P19500]>>}

\* The lists of VINs handed to get_scrape_attempts ([] included).
VinLists == SUBSET (Vins \cup {VinC})

\* Tables of described vehicles: VinA (an INFINITI Q50 with or without a
\* year), VinB and VinC, each in the table or not.
TrimNone == << >>
TrimLuxe == <<"L", "U", "X", "E">>
TrimLuxeLower == <<"l", "u", "x", "e">>
Y2018 == 2018
Y2022 == 2022
Y2023 == 2023
DescribedA ==
    [vin : {VinA}, make : {"INFINITI"}, model : {"Q50"},
     year : {NULL, Y2018}, trim : {TrimLuxe}, is_active : {0, 1}]
DescribedB ==
    [vin : {VinB}, make : {"INFINITI"}, model : {"Q50", "QX60"},
     year : {NULL, Y2018, Y2022, Y2023}, trim : {TrimNone, TrimLuxeLower},
     is_active : {0, 1}]
DescribedC ==
    [vin : {VinC}, make : {"INFINITI", "Nissan"}, model : {"Q50"},
     year : {Y2018, Y2022, Y2023}, trim : {TrimLuxe}, is_active : {1}]
DescribedTables ==
    {a \cup b \cup c :
        a \in {{}} \cup {{r} : r \in DescribedA},
        b \in {{}} \cup {{r} : r \in DescribedB},
        c \in {{}} \cup {{r} : r \in DescribedC}}

\* A table of vehicles with make and model as the feed spells them: two
\* Q50 whose make differs in case, and a QX60.
MakeUpper == <<"I", "N", "F", "I", "N", "I", "T", "I">>
MakeMixed == <<"I", "n", "f", "i", "n", "i", "t", "i">>
ModelQ50 == <<"Q", "5", "0">>
ModelQX60 == <<"Q", "X", "6", "0">>
ListedTable ==
    {[vin |-> VinA, make |-> MakeUpper, model |-> ModelQ50],
     [vin |-> VinB, make |-> MakeMixed, model |-> ModelQ50],
     [vin |-> VinC, make |-> MakeUpper, model |-> ModelQX60]}

\* The values of limit: one, and the default.
Limits == {1, DefaultLimit}

\* The results of _fetch_prices_from_api: a price for some of the VINs.
ApiPriceMaps == UNION {[S -> {P19000}] : S \in SUBSET Vins}

\* The runs it takes to use up the budget of a vehicle and to price it then.
RetryRuns == MAX_SCRAPE_ATTEMPTS + 1

\* The values of MAX_SCRAPE_ATTEMPTS: the default, and an operator's raise.
Ceilings == {MAX_SCRAPE_ATTEMPTS, MAX_SCRAPE_ATTEMPTS + 1}

\* The upload step of main: skipped (--csv-only), or done with a result.
Uploads == [csv_only : BOOLEAN, ok : BOOLEAN]

\* Runs that upload (the dashboard starts main without arguments).
Uploaded == {u \in Uploads : ~u.csv_only}

\* What the statements of step 5 of main do: all succeed, upsert_vehicles
\* (or init_db before it) raises, record_sync_run raises.
DbOutcomes == {"ok", "upsert_raises", "record_raises"}

\* What get_scrape_attempts does in step 2 of main: it returns, or raises
\* (the except clause passes).
ReadOutcomes == {"ok", "raises"}

\* Feeds of vehicles without a price.
BudgetFeeds ==
    {<<[vin |-> VinA, price |-> NoPrice]>>,
     <<[vin |-> VinA, price |-> NoPrice], [vin |-> VinB, price |-> NoPrice]>>}

\* What the producers return to a run the dashboard started.
TriggerFeeds == {<< >>, <<[vin |-> VinA, price |-> P19500]>>}

\* Runs that skip the upload.
CsvOnly == {u \in Uploads : u.csv_only /\ u.ok}

\* The parsed Cox report records (parse_cox_report leaves out what it did
\* not find: None, here NULL and "").
CoxRecords ==
    [vin : Vins \cup {VinC}, internet_price : {19950},
     adj_cost_to_market : {NULL, 95}, report_date : {""}]

\* The settings dealer_zip and market_radius.
DealerZip == "78216"
MarketRadius == "150"

\* The cache keys: lowercase(make)|lowercase(model)|zip|radius, the four
\* parts of the string kept apart.
KeyQ50 ==
    <<<<"i", "n", "f", "i", "n", "i", "t", "i">>, <<"q", "5", "0">>,
      DealerZip, MarketRadius>>
KeyQX60 ==
    <<<<"i", "n", "f", "i", "n", "i", "t", "i">>, <<"q", "x", "6", "0">>,
      DealerZip, MarketRadius>>
CacheKeys == {KeyQ50, KeyQX60}

\* The listings of a MarketCheck answer (the VINs on offer), [] included.
ListingA == "1HGCV1F32LA123456"
ListingB == "1HGCV1F32LA123457"
Payloads == {<< >>, <<ListingA>>, <<ListingA, ListingB>>}

\* Decoded specifications of a VIN and window-sticker URLs, and the
\* arguments of set_vin_cache: not given (None), or a value ([] and ""
\* included).
SpecsA == <<"Year 2018", "Make Toyota">>
SpecsB == <<"Year 2018", "Make Toyota", "Model Camry">>
StickerA == "https://example.com/sticker.pdf"
SpecsArgs == {None, Some(<< >>), Some(SpecsA), Some(SpecsB)}
StickerArgs == {None, Some(""), Some(StickerA)}

\* What a MarketCheck request comes back with.
Fetches ==
    [kind : {"exception", "status", "error"}, listings : {<< >>}]
        \cup [kind : {"ok"}, listings : Payloads]

\* A session of the document store during one call: it works or raises.
SessionOutcomes == {"ok", "raises"}

\* Half a day on the clock, and the steps the clock of the caches takes.
HalfDay == 12 * HourSeconds
ClockSteps == {1, HalfDay}

\* The TTL of the comparable cache and a second more.
DayAndSecond == COMPS_TTL_HOURS * HourSeconds + 1

\* The readings of the clock of the caches: within MaxTime seconds after a
\* whole number of half days, MaxHalfDays at most.
CacheClock(t) ==
    /\ t <= MaxHalfDays * HalfDay + MaxTime
    /\ t % HalfDay \in 1..MaxTime

\* The price of the last record of batch that carries vin.
LastPriceIn(batch, vin) ==
    LET idx == {i \in 1..Len(batch) : batch[i].vin = vin}
        i   == CHOOSE k \in idx : \A j \in idx : j <= k
    IN  batch[i].price

\* History of a store operation (the fields of a sync run left empty).
Hist(op, vins, empty, ret, repriced) ==
    [op |-> op, vins |-> vins, empty |-> empty, ret |-> ret,
     repriced |-> repriced, ceiling |-> 0, scrape |-> FALSE,
     need_scrape |-> {}]

NoOp == Hist("init", {}, TRUE, TRUE, {})

\* The VINs of batch whose row exists in rows with another price_dollars
\* than in rows2.
Repriced(rows, rows2, batch) ==
    {v \in BatchVins(batch) :
        \E r \in rows, r2 \in rows2 :
            r.vin = v /\ r2.vin = v /\ r.price_dollars # r2.price_dollars}

\* History: the key of an operation that has none.
NoKey == << >>

\* History of a cache operation on key: its result, the outcome of the
\* MarketCheck request it made ("none" without one) and the rows the table
\* held for the key before (left empty by the operations that only read).
CacheHist(op, key, ret, fetch, before) ==
    [op |-> op, vins |-> {key}, ret |-> ret, fetch |-> fetch,
     before |-> before]

\* History of a request of a market handler for the vehicle vin.
RequestHist(op, vin, key, ret, fetch, before) ==
    [op |-> op, vin |-> vin, vins |-> {key}, ret |-> ret, fetch |-> fetch,
     before |-> before]

\* History: nothing stored in the caches yet.
NothingStored ==
    [comps |-> [k \in CacheKeys |-> None],
     vin   |-> [v \in Vins |-> [specs |-> None, sticker_url |-> None]]]

\* History: the payload the caller stored under key at the clock reading t.
CompsStored(key, listings, t) ==
    [stored EXCEPT !.comps[key] = Some([payload |-> listings, at |-> t])]

\* History: the fields the caller gave set_vin_cache for vin.
VinStored(vin, specs, sticker_url) ==
    [stored EXCEPT
        !.vin[vin].specs = IF specs # None THEN specs ELSE @,
        !.vin[vin].sticker_url = IF sticker_url # None THEN sticker_url ELSE @]

\* History of a bulk read of the attempt counters: the dict it returned.
AttemptsHist(vins, ret) ==
    [op |-> "get_scrape_attempts", vins |-> vins, ret |-> ret]

\* History of a call of get_comparable_vehicles: the list it returned.
ComparableHist(vin, limit, ret) ==
    [op |-> "get_comparable_vehicles", vins |-> {vin}, limit |-> limit,
     ret |-> ret]

\* History of a reconcile pass that raised: the exception, the turn of the
\* loop it was raised in and the rows the pass had written by then.
RaisedHist(batch, cause, at, dirty) ==
    [op |-> "upsert_vehicles", vins |-> BatchVins(batch), empty |-> FALSE,
     ret |-> FALSE, cause |-> cause, at |-> at, dirty |-> dirty]

\* History of a step of the sync trigger: the status of the response.
TriggerHist(op, status) ==
    [op |-> op, vins |-> {}, ret |-> status]

\* _sync as the module sets it.
Idle ==
    [running |-> FALSE, started_at |-> NULL,
     last_message |-> "Never run from dashboard"]

\* _fb_stats as the module sets it.
NeverFetched ==
    [running |-> FALSE, last_message |-> "Never fetched", fetched_at |-> NULL]

\* A mutant of Finally: the flag is left as it is (no finally clause).
FinallyMissing(job) == job

\* finally: _sync["running"] = False, and the same of _fb_stats.
Finally(job) == [job EXCEPT !.running = FALSE]

\* How the graph requests of _fetch_fb_stats end: all answered, an answer
\* with "error" for the catalog items (early return), or an exception.
FbOutcomes == {"updated", "api_error", "exception"}

\* History: no reader has read yet.
NothingSeen ==
    [during |-> FALSE, rows |-> {}, pre |-> {}, batch |-> << >>, t |-> 0,
     dirty |-> {}]

\* History: nothing said yet.
NothingSaid ==
    [v \in Vins |-> [price_override |-> NULL, addendum_override |-> NULL,
                     scraped |-> NULL, fails |-> 0, peak |-> 0]]

\* History after a batch: the feed's latest word on every VIN it carries.
FeedSaid(batch) ==
    [v \in Vins |->
        IF v \in BatchVins(batch)
        THEN [expect[v] EXCEPT !.scraped = ParsePrice(LastPriceIn(batch, v))]
        ELSE expect[v]]

\* History after an edit of an existing vehicle: the user's latest word.
UserSaid(vin, fields) ==
    [v \in Vins |->
        IF v = vin /\ \E r \in vehicles : r.vin = vin
        THEN [expect[v] EXCEPT
                !.price_override =
                    IF "price_override" \in DOMAIN fields
                    THEN fields["price_override"] ELSE @,
                !.addendum_override =
                    IF "addendum_override" \in DOMAIN fields
                    THEN fields["addendum_override"] ELSE @]
        ELSE expect[v]]

\* History after a sync run with price scraping: every vehicle of the feed
\* that had not used up its budget (fails < ceiling) has an outcome, a
\* success when it ends the run with a price and a failure otherwise.
\* fails counts the failures in a row, peak is the highest count so far.
OutcomesSaid(said, feed, ceiling) ==
    [v \in Vins |->
        IF v \in BatchVins(feed) /\ said[v].fails < ceiling
        THEN LET fails == IF LastPriceIn(feed, v) # NoPrice THEN 0
                          ELSE said[v].fails + 1
             IN  [said[v] EXCEPT
                    !.fails = fails,
                    !.peak = IF fails > @ THEN fails ELSE @]
        ELSE said[v]]

(***************************************************************************)
(* State machine.                                                          *)
(***************************************************************************)
Init ==
    /\ vehicles = {}
    /\ sync_runs = << >>
    /\ now = 1
    /\ last = NoOp
    /\ expect = NothingSaid
    /\ comps_cache = {}
    /\ vin_cache = {}
    /\ stored = NothingStored
    /\ txn = NoTxn
    /\ seen = NothingSeen
    /\ sync = Idle
    /\ tasks = << >>
    /\ fb_stats = NeverFetched
    /\ fb_tasks = << >>
    /\ store = FALSE
    /\ raven = {}

\* The state with a table of described vehicles.
InitDescribed ==
    /\ vehicles \in DescribedTables
    /\ sync_runs = << >>
    /\ now = 1
    /\ last = NoOp
    /\ expect = NothingSaid
    /\ comps_cache = {}
    /\ vin_cache = {}
    /\ stored = NothingStored
    /\ txn = NoTxn
    /\ seen = NothingSeen
    /\ sync = Idle
    /\ tasks = << >>
    /\ fb_stats = NeverFetched
    /\ fb_tasks = << >>
    /\ store = FALSE
    /\ raven = {}

\* comparable(id): db.get_comparable_vehicles.
GetComparable(limits) ==
    \E vin \in Vins \cup {VinC}, limit \in limits :
    \E ret \in GetComparableVehicles(vehicles, vin, limit) :
        /\ last' = ComparableHist(vin, limit, ret)
        /\ UNCHANGED <<vehicles, sync_runs, now, expect, cacheVars, passVars,
                       triggerVars>>

\* The state with the table of listed vehicles.
InitListed ==
    /\ vehicles = ListedTable
    /\ sync_runs = << >>
    /\ now = 1
    /\ last = NoOp
    /\ expect = NothingSaid
    /\ comps_cache = {}
    /\ vin_cache = {}
    /\ stored = NothingStored
    /\ txn = NoTxn
    /\ seen = NothingSeen
    /\ sync = Idle
    /\ tasks = << >>
    /\ fb_stats = NeverFetched
    /\ fb_tasks = << >>
    /\ store = FALSE
    /\ raven = {}

\* reconcile(batch): db.upsert_vehicles called with a batch.
Reconcile(records, readings) ==
    \E batch \in Batches(records), t \in readings :
        /\ vehicles' = UpsertVehicles(vehicles, batch, t)
        /\ now' = t
        /\ last' = Hist("upsert_vehicles", BatchVins(batch), batch = << >>,
                         TRUE, Repriced(vehicles, vehicles', batch))
        /\ expect' = FeedSaid(batch)
        /\ UNCHANGED <<sync_runs, cacheVars, passVars, triggerVars>>

\* update_fields(id, field_updates): db.update_vehicle_fields.
UpdateFields(updates) ==
    \E vin \in Vins \cup {VinC}, fields \in updates :
        /\ vehicles' = UpdateVehicleFields(vehicles, vin, fields)
        /\ last' = Hist("update_vehicle_fields", {vin}, DOMAIN fields = {},
                         UpdateVehicleFieldsResult(vehicles, vin, fields), {})
        /\ expect' = UserSaid(vin, fields)
        /\ UNCHANGED <<sync_runs, now, cacheVars, passVars, triggerVars>>

\* db.cox_import called with the records of a pasted Cox report.
CoxImport ==
    \E rec \in CoxRecords :
        /\ vehicles' = CoxImportLoop(vehicles, <<rec>>, 1)
        /\ last' = Hist("cox_import", {rec.vin}, FALSE,
                         CoxMatches(vehicles, rec), {})
        /\ UNCHANGED <<sync_runs, now, expect, cacheVars, passVars,
                       triggerVars>>

\* One execution of fb_marketplace_sync.main: the producers' vehicles, the
\* price scrape unless --no-price-scrape, the upload unless --csv-only, then
\* upsert_vehicles, the attempt counters and record_sync_run.  Without
\* vehicles it exits before any write.  flags are the values of
\* --no-price-scrape, runs caps the executions that write.
\* Step 1 of main: the inventory API first, the RSS feeds when it returned
\* nothing (a failing request ends fetch_vehicles_from_api with what it has,
\* a failing feed is left out by fetch_rss).
FetchInventory(api, rss) == IF api = << >> THEN rss ELSE api

\* A main that goes on with whatever step 1 returned.
NoVehiclesIgnored(feed) == FALSE

\* "No vehicles found. Exiting.": main ends with sys.exit(1) before step 2.
NoVehicles(feed) == feed = << >>

SyncBody(feeds, flags, uploads, runs, dbs, ceilings, reads) ==
    \E feed \in feeds, no_price_scrape \in flags, ceiling \in ceilings,
       upload \in uploads, db \in dbs, read \in reads :
    \* The inventory API is asked for prices only when prices are scraped.
    \E vin_price_map \in (IF no_price_scrape THEN {EmptyDict}
                           ELSE ApiPriceMaps) :
    \* The locals of main, each bound to its value once.  When the read of
    \* the counters raises, _attempts and _skip_vins stay empty.
    \E attempts \in {IF no_price_scrape \/ read = "raises" THEN EmptyDict
                     ELSE GetScrapeAttempts(vehicles, BatchVins(feed))} :
    \E skip_vins \in {IF no_price_scrape THEN {}
                      ELSE SkipVins(attempts, ceiling)} :
    \E scraped \in {IF no_price_scrape THEN feed
                    ELSE ScrapePrices(feed, skip_vins, vin_price_map)} :
    \E attempted \in {AttemptedThisRun(scraped, skip_vins, no_price_scrape)} :
        LET vins    == {feed[i].vin : i \in 1..Len(feed)}
            success == upload.csv_only \/ upload.ok
        IN  IF NoVehicles(feed)
            THEN /\ last' = Hist("main", {}, TRUE, FALSE, {})
                 /\ UNCHANGED <<vehicles, sync_runs, now, expect, cacheVars,
                                passVars>>
            ELSE IF db = "upsert_raises"
            \* The exception leaves the try block of step 5: the pass is
            \* rolled back, record_sync_run is not reached.
            THEN /\ last' = Hist("main", vins, FALSE, FALSE, {})
                 /\ UNCHANGED <<vehicles, sync_runs, now, expect, cacheVars,
                                passVars>>
            ELSE /\ Len(sync_runs) < runs
                 /\ vehicles' =
                        PersistRun(vehicles, scraped, attempted, attempts, now)
                 /\ sync_runs' =
                        IF db = "record_raises" THEN sync_runs
                        ELSE RecordSyncRun(sync_runs,
                            RunSummary(scraped, upload.csv_only, success), now)
                 /\ last' = [Hist("main", vins, FALSE, TRUE,
                                  Repriced(vehicles, vehicles', scraped))
                               EXCEPT !.ceiling = ceiling,
                                      !.scrape = ~no_price_scrape,
                                      !.need_scrape =
                                          IF no_price_scrape THEN {}
                                          ELSE NeedScrape(feed, skip_vins)]
                 /\ expect' =
                        IF no_price_scrape THEN FeedSaid(scraped)
                        ELSE OutcomesSaid(FeedSaid(scraped), scraped, ceiling)
                 /\ UNCHANGED <<now, cacheVars, passVars>>

\* main run from the command line or by cron.
SyncRun(feeds, uploads, runs) ==
    /\ SyncBody(feeds, BOOLEAN, uploads, runs, {"ok"}, Ceilings, {"ok"})
    /\ UNCHANGED triggerVars

\* main, with the store failing or not in step 5.
SyncRunStoring(feeds, uploads, runs) ==
    /\ SyncBody(feeds, BOOLEAN, uploads, runs, DbOutcomes, Ceilings, {"ok"})
    /\ UNCHANGED triggerVars

\* main with the two producers of step 1 returning apis and rsss.
SyncRunFetching(apis, rsss, uploads, runs) ==
    \E api \in apis, rss \in rsss :
        /\ SyncBody({FetchInventory(api, rss)}, BOOLEAN, uploads, runs,
                    {"ok"}, {MAX_SCRAPE_ATTEMPTS}, {"ok"})
        /\ UNCHANGED triggerVars

\* main under one value of MAX_SCRAPE_ATTEMPTS, the read of the counters
\* before the scrape failing or not.
SyncRunBudget(feeds, ceilings, runs) ==
    /\ SyncBody(feeds, BOOLEAN, CsvOnly, runs, {"ok"}, ceilings,
                ReadOutcomes)
    /\ UNCHANGED triggerVars

\* db.get_scrape_attempts called with a list of VINs.
GetAttempts(lists) ==
    \E vins \in lists :
        /\ last' = AttemptsHist(vins, GetScrapeAttempts(vehicles, vins))
        /\ UNCHANGED <<vehicles, sync_runs, now, expect, cacheVars, passVars,
                       triggerVars>>

\* POST /api/trigger-sync: 409 while _sync["running"], else the task is
\* added to the background tasks of the request.
api_trigger_sync ==
    IF sync.running
    THEN /\ last' = TriggerHist("api_trigger_sync", 409)
         /\ UNCHANGED <<vehicles, sync_runs, now, expect, cacheVars, passVars,
                        triggerVars>>
    ELSE /\ Len(tasks) < MaxTriggers
         /\ tasks' = Append(tasks, "queued")
         /\ last' = TriggerHist("api_trigger_sync", 200)
         /\ UNCHANGED <<vehicles, sync_runs, now, expect, cacheVars, passVars,
                        sync, fbVars>>

\* _run_sync, up to the start of the subprocess: the background task of an
\* accepted request begins, after the response has been sent.
StartRunSync ==
    \E i \in 1..Len(tasks) :
        /\ tasks[i] = "queued"
        /\ tasks' = [tasks EXCEPT ![i] = "running"]
        /\ sync' = [running |-> TRUE, started_at |-> now,
                     last_message |-> "Running"]
        /\ last' = TriggerHist("_run_sync", 0)
        /\ UNCHANGED <<vehicles, sync_runs, now, expect, cacheVars, passVars,
                       fbVars>>

\* _run_sync, from the return of the subprocess on: fb_marketplace_sync.py
\* has run without arguments (return code 0 unless it found no vehicles or
\* the upload failed), or was killed by the timeout before it wrote
\* anything; the finally clause resets the flag.
FinishRunSync ==
    \E i \in 1..Len(tasks) :
        /\ tasks[i] = "running"
        /\ tasks' = [tasks EXCEPT ![i] = "done"]
        /\ UNCHANGED fbVars
        /\ \/ /\ SyncBody(TriggerFeeds, {FALSE}, Uploaded, MaxRuns, {"ok"},
                         Ceilings, {"ok"})
              /\ sync' = Finally([sync EXCEPT
                            !.last_message =
                                IF /\ last'.ret
                                   /\ sync_runs'[Len(sync_runs')].success = 1
                                THEN "Completed" ELSE "Error"])
           \/ /\ \E message \in {"Timed out", "Exception"} :
                    sync' = Finally([sync EXCEPT !.last_message = message])
              /\ last' = TriggerHist("_run_sync", 1)
              /\ UNCHANGED <<vehicles, sync_runs, now, expect, cacheVars,
                             passVars>>

\* POST /api/refresh-fb-stats (the token and the catalog id configured):
\* 409 while _fb_stats["running"], else the task is added.
api_refresh_fb_stats ==
    IF fb_stats.running
    THEN /\ last' = TriggerHist("api_refresh_fb_stats", 409)
         /\ UNCHANGED <<vehicles, sync_runs, now, expect, cacheVars, passVars,
                        triggerVars>>
    ELSE /\ Len(fb_tasks) < MaxRefreshes
         /\ fb_tasks' = Append(fb_tasks, "queued")
         /\ last' = TriggerHist("api_refresh_fb_stats", 200)
         /\ UNCHANGED <<vehicles, sync_runs, now, expect, cacheVars, passVars,
                        sync, tasks, fb_stats>>

\* _fetch_fb_stats, up to the try block.
StartFetchFbStats ==
    \E i \in 1..Len(fb_tasks) :
        /\ fb_tasks[i] = "queued"
        /\ fb_tasks' = [fb_tasks EXCEPT ![i] = "running"]
        /\ fb_stats' = [fb_stats EXCEPT !.running = TRUE,
                                        !.last_message = "Fetching"]
        /\ last' = TriggerHist("_fetch_fb_stats", 0)
        /\ UNCHANGED <<vehicles, sync_runs, now, expect, cacheVars, passVars,
                       sync, tasks>>

\* _fetch_fb_stats, the try block and its finally clause (the statistics go
\* to the vehicle_stats table, which is not part of the state here).
FinishFetchFbStats ==
    \E i \in 1..Len(fb_tasks), outcome \in FbOutcomes :
        /\ fb_tasks[i] = "running"
        /\ fb_tasks' = [fb_tasks EXCEPT ![i] = "done"]
        /\ fb_stats' =
              Finally(IF outcome = "updated"
                      THEN [fb_stats EXCEPT !.last_message = "Updated",
                                            !.fetched_at = now]
                      ELSE IF outcome = "api_error"
                      THEN [fb_stats EXCEPT !.last_message = "API error"]
                      ELSE [fb_stats EXCEPT !.last_message = "Exception"])
        /\ last' = TriggerHist("_fetch_fb_stats", 1)
        /\ UNCHANGED <<vehicles, sync_runs, now, expect, cacheVars, passVars,
                       sync, tasks>>

\* upsert_vehicles, statement by statement.  BeginPass: the clock is read,
\* the connection opened, and the UPDATE that deactivates every row opens
\* the transaction.
BeginPass(records) ==
    \E batch \in Batches(records) :
        /\ ~txn.open
        /\ txn' = [open |-> TRUE, rows |-> DeactivateAll(vehicles),
                    batch |-> batch, i |-> 1, t |-> now, pre |-> vehicles]
        /\ seen' = NothingSeen
        /\ UNCHANGED <<vehicles, sync_runs, now, last, expect, cacheVars,
                       triggerVars>>

\* One turn of the loop, inside the open transaction.
StepPass ==
    /\ txn.open
    /\ txn.i <= Len(txn.batch)
    /\ ~BadMileage(txn.batch[txn.i])
    /\ txn' = [txn EXCEPT
                  !.rows = UpsertOne(txn.rows, txn.batch[txn.i], txn.t),
                  !.i = txn.i + 1]
    /\ UNCHANGED <<vehicles, sync_runs, now, last, expect, cacheVars, seen,
                   triggerVars>>

\* The end of the with block: the transaction commits.
CommitPass ==
    /\ txn.open
    /\ txn.i > Len(txn.batch)
    /\ vehicles' = txn.rows
    /\ txn' = NoTxn
    /\ last' = Hist("upsert_vehicles", BatchVins(txn.batch),
                     txn.batch = << >>, TRUE,
                     Repriced(vehicles, vehicles', txn.batch))
    /\ expect' = FeedSaid(txn.batch)
    /\ seen' = NothingSeen
    /\ UNCHANGED <<sync_runs, now, cacheVars, triggerVars>>

\* An exception leaves the with block: a storage error at any statement
\* (the commit included), or the ValueError of the record at hand.
RaisePass ==
    /\ txn.open
    /\ \E cause \in {"OperationalError"} \cup
                      (IF txn.i <= Len(txn.batch) /\ BadMileage(txn.batch[txn.i])
                       THEN {"ValueError"} ELSE {}) :
          last' = RaisedHist(txn.batch, cause, txn.i, txn.rows)
    /\ vehicles' = AfterRollback(vehicles, txn)
    /\ txn' = NoTxn
    /\ seen' = NothingSeen
    /\ UNCHANGED <<sync_runs, now, expect, cacheVars, triggerVars>>

\* A reader of the dashboard (get_vehicles) on its own connection.
ReadVehicles ==
    /\ seen' = [during |-> txn.open, rows |-> ReaderView(vehicles, txn),
                 pre |-> txn.pre, batch |-> txn.batch, t |-> txn.t,
                 dirty |-> txn.rows]
    /\ UNCHANGED <<vehicles, sync_runs, now, last, expect, cacheVars, txn,
                   triggerVars>>

\* The clock runs on.
Tick(steps) ==
    \E d \in steps :
        /\ CacheClock(now + d)
        /\ now' = now + d
        /\ last' = CacheHist("clock", NoKey, None, "none", {})
        /\ UNCHANGED <<vehicles, sync_runs, expect, cacheVars, passVars,
                       triggerVars>>

\* db.set_comps_cache(cache_key, listings)
SetComps(keys, payloads) ==
    \E cache_key \in keys, listings \in payloads :
        /\ comps_cache' = SetCompsCache(comps_cache, cache_key, listings, now)
        /\ stored' = CompsStored(cache_key, listings, now)
        /\ last' = CacheHist("set_comps_cache", cache_key, Some(listings),
                              "none",
                              {r \in comps_cache : r.cache_key = cache_key})
        /\ UNCHANGED <<vehicles, sync_runs, now, expect, vin_cache, ravenVars,
                       passVars, triggerVars>>

\* db.get_comps_cache(cache_key)
GetComps(keys) ==
    \E cache_key \in keys :
        /\ last' = CacheHist("get_comps_cache", cache_key,
                              GetCompsCache(comps_cache, cache_key, now),
                              "none", {})
        /\ UNCHANGED <<vehicles, sync_runs, now, expect, cacheVars, passVars,
                       triggerVars>>

\* ravendb_cache.init_ravendb() at the start of a process: the connection
\* test succeeds and _store is set, or it fails and _store is None.
init_ravendb ==
    \E connected \in BOOLEAN :
        /\ store' = connected
        /\ last' = CacheHist("init_ravendb", NoKey, None, "none", {})
        /\ UNCHANGED <<vehicles, sync_runs, now, expect, comps_cache,
                       vin_cache, stored, raven, passVars, triggerVars>>

\* ravendb_cache.set_comps_cache(cache_key, listings, db.set_comps_cache)
RavenSetComps(keys, payloads, outcomes) ==
    \E cache_key \in keys, listings \in payloads, outcome \in outcomes :
        /\ raven' = RavenDocsAfterSet(store, raven, cache_key, listings, now,
                                      outcome)
        /\ comps_cache' = RavenRowsAfterSet(store, comps_cache, cache_key,
                                            listings, now, outcome)
        /\ stored' = CompsStored(cache_key, listings, now)
        /\ last' = CacheHist("raven_set_comps_cache", cache_key,
                              Some(listings), outcome, {})
        /\ UNCHANGED <<vehicles, sync_runs, now, expect, vin_cache, store,
                       passVars, triggerVars>>

\* ravendb_cache.get_comps_cache(cache_key, db.get_comps_cache)
RavenGetComps(keys, outcomes) ==
    \E cache_key \in keys, outcome \in outcomes :
        /\ last' = CacheHist("raven_get_comps_cache", cache_key,
                              RavenGetCompsCache(store, raven, comps_cache,
                                                 cache_key, now, outcome),
                              outcome, {})
        /\ UNCHANGED <<vehicles, sync_runs, now, expect, cacheVars, passVars,
                       triggerVars>>

\* GET /api/market-comps/{vin} and GET /api/market-value/{vin}, from the
\* cache check on (cache_key is built from the vehicle's make and model and
\* the settings; a request that fails the checks before raises 400 or 404
\* and touches nothing): a hit answers from the cache, a miss asks
\* MarketCheck and stores the listings of an answer that is no failure.
MarketLookupKey(op, vin, cache_key, fetch) ==
    LET cached == GetCompsCache(comps_cache, cache_key, now)
        before == {r \in comps_cache : r.cache_key = cache_key}
    IN  IF cached # None
        THEN /\ last' = RequestHist(op, vin, cache_key,
                            [status |-> 200, listings |-> cached[1]],
                            "none", before)
             /\ UNCHANGED <<vehicles, sync_runs, now, expect, cacheVars,
                            passVars, triggerVars>>
        ELSE /\ comps_cache' = AfterFetch(comps_cache, cache_key, fetch, now)
             /\ stored' = IF FetchFailed(fetch) THEN stored
                           ELSE CompsStored(cache_key,
                                            Enriched(fetch.listings), now)
             /\ last' = RequestHist(op, vin, cache_key,
                            IF FetchFailed(fetch)
                            THEN [status |-> 502, listings |-> << >>]
                            ELSE [status |-> 200,
                                  listings |-> Enriched(fetch.listings)],
                            fetch.kind, before)
             /\ UNCHANGED <<vehicles, sync_runs, now, expect, vin_cache,
                            ravenVars, passVars, triggerVars>>

\* The same for any vehicle whose make and model give one of CacheKeys.
MarketLookup(op) ==
    \E cache_key \in CacheKeys, fetch \in Fetches :
        MarketLookupKey(op, EmptyVin, cache_key, fetch)

\* A mutant of CacheKey: make and model are not lowercased.
CacheKeyAsSpelled(v, dealer_zip, radius) ==
    <<v.make, v.model, dealer_zip, radius>>

\* cache_key = f"{make.lower()}|{model.lower()}|{dealer_zip}|{radius}"
CacheKey(v, dealer_zip, radius) ==
    <<Lower(v.make), Lower(v.model), dealer_zip, radius>>

\* A request of a market handler for the vehicle vin: 404 without a row,
\* else the lookup under the key of the vehicle's make and model.
MarketRequest(op) ==
    \E vin \in Vins \cup {VinC}, fetch \in Fetches :
        IF ~\E r \in vehicles : r.vin = vin
        THEN /\ last' = RequestHist(op, vin, << >>,
                            [status |-> 404, listings |-> << >>], "none", {})
             /\ UNCHANGED <<vehicles, sync_runs, now, expect, cacheVars,
                            passVars, triggerVars>>
        ELSE LET v == CHOOSE r \in vehicles : r.vin = vin
             IN  MarketLookupKey(op, vin,
                                 CacheKey(v, DealerZip, MarketRadius), fetch)

\* GET /api/market-comps/{vin} and GET /api/market-value/{vin}.
MarketCompsFor == MarketRequest("api_market_comps")

MarketValueFor == MarketRequest("api_market_value")

\* db.set_vin_cache(vin, specs, sticker_url)
SetVin(vins, specs_args, sticker_args) ==
    \E vin \in vins, specs \in specs_args, sticker_url \in sticker_args :
        /\ vin_cache' = SetVinCache(vin_cache, vin, specs, sticker_url, now)
        /\ stored' = VinStored(vin, specs, sticker_url)
        /\ last' = CacheHist("set_vin_cache", vin,
                              [specs |-> specs, sticker_url |-> sticker_url],
                              "none", {r \in vin_cache : r.vin = vin})
        /\ UNCHANGED <<vehicles, sync_runs, now, expect, comps_cache,
                       ravenVars, passVars, triggerVars>>

\* db.get_vin_cache(vin)
GetVin(vins) ==
    \E vin \in vins :
        /\ last' = CacheHist("get_vin_cache", vin,
                              GetVinCache(vin_cache, vin), "none", {})
        /\ UNCHANGED <<vehicles, sync_runs, now, expect, cacheVars, passVars,
                       triggerVars>>

api_market_comps == MarketLookup("api_market_comps")

api_market_value == MarketLookup("api_market_value")

\* The store under reconcile passes and user edits, the clock standing still.
Next ==
    \/ Reconcile(VehicleRecords, {now})
    \/ UpdateFields(FieldUpdates)

Spec == Init /\ [][Next]_vars

\* The same with a running clock and price edits only.
NextTime ==
    \/ Reconcile(FeedRecords, ClockReadings)
    \/ UpdateFields(PriceEdits)

SpecTime == Init /\ [][NextTime]_vars

\* The store under reconcile passes, user edits and Cox imports.
NextCox ==
    \/ Reconcile(FeedRecords, {now})
    \/ UpdateFields(OverrideEdits)
    \/ CoxImport

SpecCox == Init /\ [][NextCox]_vars

\* The store under sync runs.
NextSync == SyncRun(Feeds, CsvOnly, RetryRuns)

SpecSync == Init /\ [][NextSync]_vars

\* The store under reconcile passes and every edit update_vehicle_fields
\* takes.
NextEdit ==
    \/ Reconcile(PricedRecords, {now})
    \/ UpdateFields(AnyEdits)

SpecEdit == Init /\ [][NextEdit]_vars

\* A reconcile pass statement by statement, with a reader beside it.
NextPass ==
    \/ BeginPass(FeedRecords)
    \/ StepPass
    \/ CommitPass
    \/ ReadVehicles

SpecPass == Init /\ [][NextPass]_vars

\* The attempt counters under sync runs, and their bulk read.
NextAttempts ==
    \/ SyncRun(UnpricedFeeds, CsvOnly, RetryRuns)
    \/ GetAttempts(VinLists)

SpecAttempts == Init /\ [][NextAttempts]_vars

\* The market handlers asked about the listed vehicles, the clock running.
NextShare ==
    \/ Tick(ClockSteps)
    \/ MarketCompsFor
    \/ MarketValueFor

SpecShare == InitListed /\ [][NextShare]_vars

\* Uploading sync runs whose producers return vehicles or nothing.
NextFetch == SyncRunFetching(ApiFeeds, RssFeeds, Uploaded, MaxRuns)

SpecFetch == Init /\ [][NextFetch]_vars

\* The attempt counters under sync runs with the default ceiling.
NextBudget == SyncRunBudget(BudgetFeeds, {MAX_SCRAPE_ATTEMPTS}, RetryRuns)

SpecBudget == Init /\ [][NextBudget]_vars

\* A reconcile pass statement by statement, with the exceptions that can
\* end it.
NextRaise ==
    \/ BeginPass(MileageRecords)
    \/ StepPass
    \/ CommitPass
    \/ RaisePass

SpecRaise == Init /\ [][NextRaise]_vars

\* The background jobs of the dashboard; a task that was added is run, and
\* a job that runs ends (the subprocess and the requests have timeouts).
NextJobs ==
    \/ Len(tasks) < MaxJobs /\ api_trigger_sync
    \/ StartRunSync
    \/ FinishRunSync
    \/ api_refresh_fb_stats
    \/ StartFetchFbStats
    \/ FinishFetchFbStats

SpecJobs ==
    /\ Init
    /\ [][NextJobs]_vars
    /\ WF_vars(StartRunSync)
    /\ WF_vars(FinishRunSync)
    /\ WF_vars(StartFetchFbStats)
    /\ WF_vars(FinishFetchFbStats)

\* The comparable query over tables of described vehicles.
NextComparable == GetComparable(Limits)

SpecComparable == InitDescribed /\ [][NextComparable]_vars

\* A reconcile pass statement by statement over records with any price.
NextPrice ==
    \/ BeginPass(AnyPriceRecords)
    \/ StepPass
    \/ CommitPass

SpecPrice == Init /\ [][NextPrice]_vars

\* The sync history under sync runs with every outcome of the upload and of
\* the writes of step 5, and user edits.
NextAudit ==
    \/ SyncRunStoring(TriggerFeeds, Uploads, MaxRuns)
    \/ UpdateFields(PriceEdits)

SpecAudit == Init /\ [][NextAudit]_vars

\* The sync trigger of the dashboard: requests and background tasks.
NextTrigger ==
    \/ api_trigger_sync
    \/ StartRunSync
    \/ FinishRunSync

SpecTrigger == Init /\ [][NextTrigger]_vars

\* One key of the comparable cache behind the document store, sessions
\* working or raising, the process restarted, the clock running.
NextRaven ==
    \/ Tick(ClockSteps)
    \/ init_ravendb
    \/ RavenSetComps({KeyQ50}, Payloads, SessionOutcomes)
    \/ RavenGetComps({KeyQ50}, SessionOutcomes)

SpecRaven == Init /\ [][NextRaven]_vars

\* The comparable cache under its callers and a running clock.
NextComps ==
    \/ Tick(ClockSteps)
    \/ SetComps(CacheKeys, Payloads)
    \/ GetComps(CacheKeys)
    \/ api_market_comps
    \/ api_market_value

SpecComps == Init /\ [][NextComps]_vars

\* The VIN cache under its callers, with the clock, reconcile passes and the
\* comparable cache beside it.
NextVin ==
    \/ Tick({DayAndSecond})
    \/ SetVin({VinA}, SpecsArgs, StickerArgs)
    \/ SetVin({VinB}, {Some(SpecsA)}, {None})
    \/ GetVin(Vins)
    \/ Reconcile({[vin |-> VinA, price |-> P19500]}, {now})
    \/ SetComps({KeyQ50}, {<<ListingA>>})
    \/ GetComps({KeyQ50})

SpecVin == Init /\ [][NextVin]_vars

(***************************************************************************)
(* Properties.                                                             *)
(***************************************************************************)
VinsOf(rows) == {r.vin : r \in rows}

UserFields(r) ==
    <<r.price_override, r.addendum_override, r.market_value, r.notes>>

\* The step is a reconcile pass (every other operation leaves another op).
ReconcileStep == last'.op = "upsert_vehicles"

\* C1: after a completed reconcile(batch), is_active is 1 for exactly the
\* vehicles whose non-empty identifier occurs in the batch and 0 for every
\* other vehicle of the store.
C1_ActiveIffInBatch ==
    last.op = "upsert_vehicles" =>
        \A r \in vehicles :
            r.is_active = (IF r.vin \in last.vins THEN 1 ELSE 0)

C1_Witness ==
    /\ last.op = "upsert_vehicles"
    /\ \E r \in vehicles : r.is_active = 1 /\ r.vin \in last.vins
    /\ \E r \in vehicles : r.is_active = 0

\* C2: a reconcile pass leaves price_override, addendum_override,
\* market_value and notes of every vehicle as they were, stores the batch's
\* price in price_dollars and, under a non-null price_override, leaves the
\* effective price as it was; the four columns change only in a step of
\* update_vehicle_fields or cox_import (the dashboard's user operations).
C2_ReconcileKeepsUserFields ==
    [][/\ ReconcileStep =>
            /\ \A r \in vehicles : \E r2 \in vehicles' :
                /\ r2.vin = r.vin
                /\ UserFields(r2) = UserFields(r)
                /\ r.price_override # NULL =>
                       EffectivePrice(r2) = EffectivePrice(r)
            /\ \A r2 \in vehicles' :
                r2.vin \in last'.vins =>
                    r2.price_dollars = expect'[r2.vin].scraped
       /\ (\E r \in vehicles, r2 \in vehicles' :
              r2.vin = r.vin /\ UserFields(r2) # UserFields(r))
            => last'.op \in {"update_vehicle_fields", "cox_import"}
      ]_vars

C2_Witness ==
    /\ last.op = "upsert_vehicles"
    /\ \E r \in vehicles :
        /\ r.vin \in last.repriced
        /\ r.price_override = 18000
        /\ r.addendum_override = 500
        /\ r.market_value # NULL
        /\ r.notes = "hold"
        /\ EffectivePrice(r) = 18000

\* C3: first_seen of a vehicle is the clock reading of the pass that
\* inserts it and never changes afterwards; a pass that includes the vehicle
\* sets its last_seen to the pass's clock reading.
C3_FirstSeenStable ==
    [][/\ \A r \in vehicles : \E r2 \in vehicles' :
              r2.vin = r.vin /\ r2.first_seen = r.first_seen
       /\ \A r2 \in vehicles' :
              r2.vin \notin VinsOf(vehicles) =>
                  ReconcileStep /\ r2.first_seen = now'
       /\ ReconcileStep =>
              \A r2 \in vehicles' :
                  r2.vin \in last'.vins => r2.last_seen = now'
      ]_vars

C3_Witness ==
    /\ last.op = "upsert_vehicles"
    /\ \E r \in vehicles :
        /\ r.vin \in last.vins
        /\ r.first_seen < r.last_seen
        /\ r.last_seen = now

\* C4: a reconcile pass deletes no row and duplicates none: afterwards the
\* store holds exactly one row per identifier that it held before or that
\* the batch carries, and a vehicle the batch omits keeps its row, every
\* column but is_active unchanged.
C4_NoDeleteNoDuplicate ==
    [][ReconcileStep =>
          /\ VinsOf(vehicles') = VinsOf(vehicles) \cup last'.vins
          /\ Cardinality(vehicles') = Cardinality(VinsOf(vehicles'))
          /\ \A r \in vehicles :
                r.vin \notin last'.vins =>
                    [r EXCEPT !.is_active = 0] \in vehicles'
      ]_vars

C4_Witness ==
    /\ last.op = "upsert_vehicles"
    /\ Cardinality(vehicles) = 2
    /\ \E r \in vehicles :
        /\ r.vin \notin last.vins
        /\ r.is_active = 0
        /\ r.last_seen < now
        /\ r.price_override = 18000

\* The clock readings of a pass that follows a pass at reading t.
ReadingsAfter(t) == {t2 \in t..(t + 1) : t2 <= MaxTime}

\* C5: reconcile is idempotent: from any reachable store, a second
\* reconcile of the same batch leaves the rows of the first, the same active
\* set and the same values; only last_seen of the batch's vehicles is moved
\* to the second pass's clock reading.
C5_Idempotent ==
    \A batch \in Batches(FeedRecords), t1 \in ClockReadings :
        \A t2 \in ReadingsAfter(t1) :
            LET once  == UpsertVehicles(vehicles, batch, t1)
                twice == UpsertVehicles(once, batch, t2)
            IN  twice = {IF r.vin \in BatchVins(batch)
                         THEN [r EXCEPT !.last_seen = t2] ELSE r : r \in once}

C5_Witness ==
    /\ last.op = "upsert_vehicles"
    /\ \E r \in vehicles : r.is_active = 0
    /\ \E batch \in Batches(FeedRecords) :
        /\ BatchVins(batch) = last.vins
        /\ last.vins # {}
        /\ UpsertVehicles(vehicles, batch, now) = vehicles

\* The global addendum amounts tried (settings, else the environment).
Addenda == {0, 995}

\* C6: the effective price of a vehicle is the price override the user set
\* last when that is not NULL (0 included), else the price of the latest
\* batch that carried the vehicle; the effective addendum is the addendum
\* override the user set last when not NULL, else the global addendum.
C6_EffectivePrice ==
    \A r \in vehicles :
        /\ EffectivePrice(r) =
              (IF expect[r.vin].price_override # NULL
               THEN expect[r.vin].price_override
               ELSE expect[r.vin].scraped)
        /\ \A addendum \in Addenda :
              EffectiveAddendum(r, addendum) =
                  (IF expect[r.vin].addendum_override # NULL
                   THEN expect[r.vin].addendum_override
                   ELSE addendum)

C6_Witness ==
    /\ last.op = "upsert_vehicles"
    /\ \E r \in vehicles :
        /\ r.vin \in last.repriced
        /\ expect[r.vin].price_override = 0
        /\ r.price_dollars = 19000
        /\ EffectivePrice(r) = 0
    /\ \E r \in vehicles :
        /\ expect[r.vin].price_override = NULL
        /\ r.addendum_override = 500
        /\ EffectivePrice(r) = 19500

\* C7: reconcile of an empty batch sets is_active to 0 on every row, and
\* deletes no row and changes no other column.
C7_EmptyBatchDeactivatesAll ==
    [][(ReconcileStep /\ last'.empty) =>
          vehicles' = {[r EXCEPT !.is_active = 0] : r \in vehicles}
      ]_vars

C7_Witness ==
    /\ last.op = "upsert_vehicles"
    /\ last.empty
    /\ Cardinality(vehicles) = 2
    /\ \A r \in vehicles : r.is_active = 0
    /\ \E r \in vehicles : r.price_override = 18000 /\ r.price_dollars # NULL

\* The stored attempt count of vin as get_scrape_attempts reads it (0 when
\* there is no row).
AttemptsOf(rows, vin) == DictGet(GetScrapeAttempts(rows, {vin}), vin, 0)

\* is_exhausted(id, ceiling): the partition of main into skip and eligible.
IsExhausted(rows, vin, ceiling) ==
    vin \in SkipVins(GetScrapeAttempts(rows, {vin}), ceiling)

\* The step is one execution of main.
SyncStep == last'.op = "main"

KeyOf(h) == CHOOSE k \in h.vins : TRUE

\* The step is a request of one of the two market handlers.
MarketStep == last'.op \in {"api_market_comps", "api_market_value"}

C12_SetGetRoundTrip ==
    /\ Cardinality(comps_cache) =
           Cardinality({r.cache_key : r \in comps_cache})
    /\ \A k \in CacheKeys :
        LET said == stored.comps[k]
        IN  IF said = None THEN \A r \in comps_cache : r.cache_key # k
            ELSE /\ \E r \in comps_cache :
                        r.cache_key = k /\ r.fetched_at = said[1].at
                 /\ now - said[1].at <= 24 * 3600 =>
                        GetCompsCache(comps_cache, k, now)
                            = Some(said[1].payload)

C12_Witness ==
    /\ last.op = "set_comps_cache"
    /\ last.ret = Some(<<ListingA, ListingB>>)
    /\ \E r \in last.before :
        /\ JsonLoads(r.data) = <<ListingA>>
        /\ now - r.fetched_at > 24 * 3600
    /\ GetCompsCache(comps_cache, KeyOf(last), now) = last.ret
    /\ Cardinality(comps_cache) = 2

\* C20: a market request whose MarketCheck fetch fails (exception, status
\* other than 200, error payload) answers 502 and leaves the comps_cache
\* table as it was, so every key is the hit or the miss it was before; the
\* table changes only in set_comps_cache and in a request whose fetch
\* succeeded.
C20_FetchFailureKeepsCache ==
    [][/\ (MarketStep /\ last'.fetch \in {"exception", "status", "error"}) =>
            /\ last'.ret.status = 502
            /\ comps_cache' = comps_cache
            /\ \A k \in CacheKeys :
                  GetCompsCache(comps_cache', k, now')
                      = GetCompsCache(comps_cache, k, now)
       /\ comps_cache' # comps_cache =>
            \/ last'.op = "set_comps_cache"
            \/ MarketStep /\ last'.fetch = "ok"
      ]_vars

C20_Witness ==
    /\ last.op \in {"api_market_comps", "api_market_value"}
    /\ last.fetch = "exception"
    /\ last.before # {}
    /\ last.before \subseteq comps_cache
    /\ GetCompsCache(comps_cache, KeyOf(last), now) = None
    /\ \E r \in comps_cache :
        /\ r.cache_key # KeyOf(last)
        /\ GetCompsCache(comps_cache, r.cache_key, now) # None

\* What get_vin_cache is to return for vin, by what its callers gave
\* set_vin_cache last, field by field ([] and "" for a field never given).
VinSaid(vin) ==
    Some([specs |-> IF stored.vin[vin].specs # None
                    THEN stored.vin[vin].specs[1] ELSE << >>,
          sticker_url |-> IF stored.vin[vin].sticker_url # None
                          THEN stored.vin[vin].sticker_url[1] ELSE ""])

\* C13: set_vin_cache writes only the fields it is given and creates the
\* row with [] and "" when there is none: the table has one row per VIN at
\* most, get_vin_cache returns for each field the value given last, and
\* from every reachable table set_vin(id, specs=S) and
\* set_vin(id, sticker_url=U) in either order leave get_vin(id) = {S, U}.
C13_VinPartialUpsert ==
    \A v \in Vins :
        LET rows == {r \in vin_cache : r.vin = v}
        IN  /\ Cardinality(rows) <= 1
            /\ rows # {} => GetVinCache(vin_cache, v) = VinSaid(v)
            /\ (stored.vin[v].specs # None \/ stored.vin[v].sticker_url # None)
                  => rows # {}
            /\ \A S \in {<< >>, SpecsA, SpecsB}, U \in {"", StickerA} :
                  LET specs_first ==
                          SetVinCache(
                              SetVinCache(vin_cache, v, Some(S), None, now),
                              v, None, Some(U), now)
                      url_first ==
                          SetVinCache(
                              SetVinCache(vin_cache, v, None, Some(U), now),
                              v, Some(S), None, now)
                      both == Some([specs |-> S, sticker_url |-> U])
                  IN  /\ GetVinCache(specs_first, v) = both
                      /\ GetVinCache(url_first, v) = both

C13_Witness ==
    /\ last.op = "set_vin_cache"
    /\ last.ret = [specs |-> None, sticker_url |-> Some(StickerA)]
    /\ \E r \in last.before :
        /\ r.specs_json = JsonDumps(SpecsA)
        /\ r.sticker_url = ""
    /\ GetVinCache(vin_cache, KeyOf(last))
           = Some([specs |-> SpecsA, sticker_url |-> StickerA])

\* C14: the entries of the VIN cache never expire: no step removes a row,
\* a field of a row changes only in a set_vin_cache of that VIN that is
\* given the field, and get_vin_cache returns the values given last however
\* much time has passed and whatever reconcile and the comparable cache
\* have done since.
C14_VinNeverExpires ==
    [][/\ \A r \in vin_cache : \E r2 \in vin_cache' :
            /\ r2.vin = r.vin
            /\ r2.specs_json # r.specs_json =>
                  /\ last'.op = "set_vin_cache"
                  /\ KeyOf(last') = r.vin
                  /\ last'.ret.specs # None
            /\ r2.sticker_url # r.sticker_url =>
                  /\ last'.op = "set_vin_cache"
                  /\ KeyOf(last') = r.vin
                  /\ last'.ret.sticker_url # None
       /\ last'.op = "get_vin_cache" =>
            last'.ret = IF \E r \in vin_cache : r.vin = KeyOf(last')
                        THEN VinSaid(KeyOf(last')) ELSE None
      ]_vars

C14_Witness ==
    /\ last.op = "get_vin_cache"
    /\ last.ret = Some([specs |-> SpecsA, sticker_url |-> StickerA])
    /\ \E r \in vin_cache :
        r.vin = KeyOf(last) /\ now - r.fetched_at > 24 * 3600
    /\ \E r \in vehicles : r.last_seen = now
    /\ comps_cache # {}
    /\ GetCompsCache(comps_cache, KeyQ50, now) = None

\* The step is a call of update_vehicle_fields.
UpdateStep == last'.op = "update_vehicle_fields"

\* C15: update_vehicle_fields returns false only when no vehicle has the
\* given identifier, and then leaves the store as it was; when a row with
\* the identifier exists it returns true.
C15_FalseOnlyWhenAbsent ==
    [][UpdateStep =>
          /\ last'.ret = FALSE <=> KeyOf(last') \notin VinsOf(vehicles)
          /\ last'.ret = FALSE => vehicles' = vehicles
      ]_vars

\* The columns of a row outside price_override, addendum_override,
\* market_value and notes.
OtherColumns(r) ==
    [r EXCEPT !.price_override = NULL, !.addendum_override = NULL,
              !.market_value = NULL, !.notes = ""]

\* C16: update_vehicle_fields changes only price_override,
\* addendum_override, market_value and notes of the vehicle it is called
\* for: every other column of that row and every other row stay as they
\* were, and no row comes or goes.
C16_OnlyUserFields ==
    [][UpdateStep =>
          /\ VinsOf(vehicles') = VinsOf(vehicles)
          /\ \A r \in vehicles : \E r2 \in vehicles' :
                /\ r2.vin = r.vin
                /\ OtherColumns(r2) = OtherColumns(r)
                /\ r.vin # KeyOf(last') => r2 = r
      ]_vars

\* C17: the statements of one reconcile pass become visible together.  A
\* reader that reads while a pass is open sees the store as it was before
\* the pass, in which every vehicle that was active and is in the batch is
\* still active; the store changes only at the commit, and then to what the
\* whole pass makes of the store before it.
C17_PassIsAtomic ==
    /\ txn.open => vehicles = txn.pre
    /\ seen.during =>
          /\ seen.rows = seen.pre
          /\ \A r \in seen.pre :
                (r.is_active = 1 /\ r.vin \in BatchVins(seen.batch)) =>
                    \E r2 \in seen.rows : r2.vin = r.vin /\ r2.is_active = 1
    /\ (txn.open /\ txn.i > Len(txn.batch)) =>
          txn.rows = UpsertVehicles(txn.pre, txn.batch, txn.t)

C17_Witness ==
    /\ seen.during
    /\ txn.open
    /\ \E r \in seen.rows :
        /\ r.is_active = 1
        /\ r.vin \in BatchVins(seen.batch)
        /\ \E d \in seen.dirty : d.vin = r.vin /\ d.is_active = 0

\* The accepted trigger requests whose sync has not finished.
Unfinished == {i \in 1..Len(tasks) : tasks[i] # "done"}

\* C18: at most one sync is in progress at any time: among the accepted
\* trigger requests there is never more than one whose sync has not
\* finished (a request made before that is rejected, not accepted).
C18_NoOverlap ==
    /\ Cardinality(Unfinished) <= 1
    /\ Cardinality({i \in 1..Len(tasks) : tasks[i] = "running"}) <= 1

\* C19: sync_runs is an append-only log: a step leaves every row of it as
\* it was; a run of main that reaches its reconcile pass appends exactly one
\* row, also when the pass fails; every other step appends none.
C19_AppendOnly ==
    [][/\ Len(sync_runs') >= Len(sync_runs)
       /\ SubSeq(sync_runs', 1, Len(sync_runs)) = sync_runs
       /\ IF SyncStep /\ ~last'.empty
          THEN Len(sync_runs') = Len(sync_runs) + 1
          ELSE sync_runs' = sync_runs
      ]_vars

\* The batch without its records that carry no identifier.
WellFormed(batch) == SelectSeq(batch, LAMBDA v : v.vin # EmptyVin)

\* C21: a record without identifier is skipped: at every turn of the loop
\* of a pass the rows written so far are those the pass would have written
\* for the records before that turn with the malformed ones taken out, and
\* no row without identifier is ever written.
C21_MalformedSkipped ==
    txn.open =>
        /\ txn.rows =
              UpsertVehicles(txn.pre,
                             WellFormed(SubSeq(txn.batch, 1, txn.i - 1)),
                             txn.t)
        /\ \A r \in txn.rows : r.vin # EmptyVin

C21_Witness ==
    /\ txn.open
    /\ txn.i > Len(txn.batch)
    /\ Len(txn.batch) = 2
    /\ txn.batch[1] = NoVinRecord
    /\ txn.batch[2].vin = VinA
    /\ \E r \in txn.pre : r.vin = VinB /\ r.is_active = 1
    /\ \E r \in txn.rows : r.vin = VinA /\ r.is_active = 1
    /\ \E r \in txn.rows : r.vin = VinB /\ r.is_active = 0

\* The price fields of a record that are absent or cannot be parsed.
NoReadablePrice == {NoPrice, PDollar, PCall}

\* C22: a record whose price is absent or unparsable is reconciled like any
\* other, with price_dollars NULL: at the end of the loop of a pass the row
\* of every vehicle whose last record in the batch has such a price is
\* active, seen at the time of the pass, has price_dollars NULL whatever it
\* was before, and keeps first_seen and the user's columns.
C22_UnparsablePriceIsNull ==
    (txn.open /\ txn.i > Len(txn.batch)) =>
        \A v \in BatchVins(txn.batch) :
            LastPriceIn(txn.batch, v) \in NoReadablePrice =>
                \E r \in txn.rows :
                    /\ r.vin = v
                    /\ r.price_dollars = NULL
                    /\ r.is_active = 1
                    /\ r.last_seen = txn.t
                    /\ \A p \in txn.pre : p.vin = v =>
                          /\ r.first_seen = p.first_seen
                          /\ UserFields(r) = UserFields(p)

C22_Witness ==
    /\ txn.open
    /\ txn.i > Len(txn.batch)
    /\ txn.batch = <<[vin |-> VinB, price |-> NoPrice],
                     [vin |-> VinA, price |-> PDollar]>>
    /\ \E p \in txn.pre : p.vin = VinA /\ p.price_dollars = 19500
    /\ \E r \in txn.rows : r.vin = VinA /\ r.price_dollars = NULL
    /\ \E r \in txn.rows : r.vin = VinB /\ r.price_dollars = NULL

\* The counter the table holds for vin: 0 without a row or with NULL.
StoredCounter(rows, vin) ==
    IF \E r \in rows : r.vin = vin /\ r.price_scrape_attempts # NULL
    THEN (CHOOSE r \in rows : r.vin = vin).price_scrape_attempts
    ELSE 0

TargetOf(h) == CHOOSE r \in vehicles : r.vin \in h.vins
YearDistance(item, target) == Abs(item.row.year - target.year)

\* What holds of a comparable query whatever the target's year: an unknown
\* identifier gives the empty list; the items are distinct vehicles of the
\* table, active, not the target, of its make and model; at most limit of
\* them; each flagged exactly when its year is the target's and its trim
\* matches without regard to case.
ComparableBasics(h) ==
    IF ~\E r \in vehicles : r.vin \in h.vins THEN h.ret = << >>
    ELSE LET target == TargetOf(h)
         IN  /\ Len(h.ret) <= h.limit
             /\ \A i, j \in 1..Len(h.ret) :
                    h.ret[i].row.vin = h.ret[j].row.vin => i = j
             /\ \A i \in 1..Len(h.ret) :
                    LET r == h.ret[i].row
                    IN  /\ r \in vehicles
                        /\ r.is_active = 1
                        /\ r.vin # target.vin
                        /\ r.make = target.make
                        /\ r.model = target.model
                        /\ h.ret[i].is_near_duplicate <=>
                              (r.year = target.year /\
                               Lower(r.trim) = Lower(target.trim))

\* The items lie within YearWindow model years of the target's year and
\* come in the order of increasing distance from it.
WithinYearsInOrder(h) ==
    LET target == TargetOf(h)
    IN  /\ \A i \in 1..Len(h.ret) :
              /\ target.year # NULL
              /\ h.ret[i].row.year # NULL
              /\ YearDistance(h.ret[i], target) <= YearWindow
        /\ \A i, j \in 1..Len(h.ret) :
              i < j => YearDistance(h.ret[i], target)
                          <= YearDistance(h.ret[j], target)

RequestStep == MarketStep /\ last'.ret.status # 404

C26_CounterWithinCeiling ==
    \A r \in vehicles :
        r.price_scrape_attempts \in 0..MAX_SCRAPE_ATTEMPTS

C26_Witness ==
    /\ last.op = "main"
    /\ last.scrape
    /\ last.ceiling = MAX_SCRAPE_ATTEMPTS
    /\ last.need_scrape = {VinB}
    /\ Len(sync_runs) = MAX_SCRAPE_ATTEMPTS + 1
    /\ \E r \in vehicles :
          r.vin = VinA /\ r.price_scrape_attempts = MAX_SCRAPE_ATTEMPTS
    /\ \E r \in vehicles : r.vin = VinB /\ r.price_scrape_attempts = 1

\* C27: a reconcile pass that raises leaves the table as it was before the
\* call, whatever it had written by then: no vehicle is deactivated and no
\* record of the batch is applied.  A pass over a batch with a record whose
\* mileage is not a number does not commit.
C27_AllOrNothing ==
    [][(txn.open /\ ~txn'.open) =>
          /\ last'.op = "upsert_vehicles"
          /\ IF last'.ret
             THEN \A i \in 1..Len(txn.batch) : ~BadMileage(txn.batch[i])
             ELSE /\ vehicles' = txn.pre
                  /\ vehicles' = vehicles
                  /\ sync_runs' = sync_runs
      ]_vars

C27_Witness ==
    /\ last.op = "upsert_vehicles"
    /\ ~last.ret
    /\ last.cause = "ValueError"
    /\ last.at = 2
    /\ ~txn.open
    /\ \E r \in vehicles : r.vin = VinA /\ r.is_active = 1
    /\ \E d \in last.dirty : d.vin = VinA /\ d.is_active = 0
    /\ \E d \in last.dirty : d.vin = VinB /\ d.is_active = 1
    /\ ~\E r \in vehicles : r.vin = VinB

\* The background tasks that have been added and have not ended.
Pending ==
    {i \in 1..Len(tasks) : tasks[i] # "done"}
        \cup {i \in 1..Len(fb_tasks) : fb_tasks[i] # "done"}

====
